---------------------------- MODULE Spec2Model ----------------------------
(***************************************************************************)
(* Model of the transaction processor: the csv parser thread, the router   *)
(* (processor::start), one account task per client (Account::start with    *)
(* Account::apply) and the writer thread of main.                          *)
(*                                                                         *)
(* Amounts are f32 in the source.  They are modelled as signed integers    *)
(* (exact multiples of one unit), so the arithmetic below is exact: the    *)
(* rounding of f32 and its NaN/infinity values are outside the model.      *)
(* Option<T> is modelled as a sequence of length 0 (None) or 1 (Some).     *)
(***************************************************************************)
EXTENDS Integers, Sequences, FiniteSets, TLC

(***************************************************************************)
(* Bounds of the model.                                                    *)
(***************************************************************************)
\* number of csv records the parser reads before end of file, at most
MaxRecords == 3
\* number of messages applied by the unit-test harness, at most
MaxApplied == 4
\* number of csv records of the longer files, whose records are restricted
\* to DeepRecord
MaxDeepRecords == 5
\* The three channel capacities are 100 in the source (parser.rs:3,
\* processor.rs:3, main.rs:4); they are scaled down here so that a full
\* channel, and a sender suspended on it, is reachable within MaxRecords.
PARSER_CHAN_SIZE == 1
ACCOUNT_CHAN_SIZE == 2
RESULT_CHAN_SIZE == 1

\* the client ids, transaction ids and amounts of the csv records
Clients == {1, 2}
TxIds == {1}
Amounts == {-1, 1}

\* the client, transaction ids and amounts of the unit-test harness
TestClients == {1}
TestTxIds == {1, 2}
TestAmounts == {-1, 1, 2}

(***************************************************************************)
(* message.rs                                                              *)
(***************************************************************************)
\* enum Message: Deposit and Withdraw carry an amount, the others do not
MessageOver(C, T, A) ==
    [kind : {"Deposit", "Withdraw"}, client : C, tx : T,
     amount : {<<a>> : a \in A}]
    \cup
    [kind : {"Dispute", "Resolve", "Chargeback"}, client : C,
     tx : T, amount : {<<>>}]

Message == MessageOver(Clients, TxIds, Amounts)

TestMessage == MessageOver(TestClients, TestTxIds, TestAmounts)

client_id(msg) == msg.client

is_deposit(msg) == msg.kind = "Deposit"

(***************************************************************************)
(* parser.rs                                                               *)
(***************************************************************************)
RecordKinds == {"deposit", "withdrawal", "dispute", "resolve", "chargeback", "other"}

\* struct Record { kind: String, client: u16, tx: u32, amount: Option<f32> }
Record ==
    [kind : RecordKinds, client : Clients, tx : TxIds,
     amount : {<<>>} \cup {<<a>> : a \in Amounts}]

MkMsg(k, record) ==
    [kind |-> k, client |-> record.client, tx |-> record.tx, amount |-> record.amount]

\* faulty variant: the amount column is not looked at for dispute, resolve
\* and chargeback rows
TryFrom_AmountIgnored(record) ==
    CASE record.kind = "deposit" /\ record.amount # <<>> -> <<MkMsg("Deposit", record)>>
      [] record.kind = "withdrawal" /\ record.amount # <<>> -> <<MkMsg("Withdraw", record)>>
      [] record.kind = "dispute" -> <<MkMsg("Dispute", record)>>
      [] record.kind = "resolve" -> <<MkMsg("Resolve", record)>>
      [] record.kind = "chargeback" -> <<MkMsg("Chargeback", record)>>
      [] OTHER -> <<>>

\* impl TryFrom<&Record> for Message: <<msg>> is Ok(msg), <<>> is Err
TryFrom(record) ==
    CASE record.kind = "deposit" /\ record.amount # <<>> -> <<MkMsg("Deposit", record)>>
      [] record.kind = "withdrawal" /\ record.amount # <<>> -> <<MkMsg("Withdraw", record)>>
      [] record.kind = "dispute" /\ record.amount = <<>> -> <<MkMsg("Dispute", record)>>
      [] record.kind = "resolve" /\ record.amount = <<>> -> <<MkMsg("Resolve", record)>>
      [] record.kind = "chargeback" /\ record.amount = <<>> -> <<MkMsg("Chargeback", record)>>
      [] OTHER -> <<>>

(***************************************************************************)
(* processor.rs: the account and its state machine                         *)
(***************************************************************************)
\* faulty variant: every message creates the account
should_create_account_Always(msg) == TRUE

\* should_create_account
should_create_account(msg) == is_deposit(msg)

\* Account::new
AccountNew(client) ==
    [client |-> client, available |-> 0, held |-> 0, total |-> 0, locked |-> FALSE]

\* enum Transaction: Deposited(x) | Disputed(x) | Reversed(x)
Transaction(status, x) == [status |-> status, amount |-> x]

is_deposited(t) == t.status = "Deposited"

is_disputed(t) == t.status = "Disputed"

\* TXHistory = HashMap<u32, Transaction>: a function whose domain is the key set
EmptyHistory == << >>

\* HashMap::insert
Insert(h, tx, t) ==
    [k \in (DOMAIN h) \cup {tx} |-> IF k = tx THEN t ELSE h[k]]

\* faulty variant of the Deposit arm: total is not credited
ApplyDeposit_NoTotal(acc, h, msg) ==
    LET amount == msg.amount[1] IN
    [acc |-> [acc EXCEPT !.available = @ + amount],
     hist |-> Insert(h, msg.tx, Transaction("Deposited", amount)),
     res |-> "Ok"]

\* Account<Running>::apply, the Deposit arm
ApplyDeposit(acc, h, msg) ==
    LET amount == msg.amount[1] IN
    [acc |-> [acc EXCEPT !.available = @ + amount, !.total = @ + amount],
     hist |-> Insert(h, msg.tx, Transaction("Deposited", amount)),
     res |-> "Ok"]

\* faulty variant of the Withdraw arm: the withdrawal is entered in the
\* history
ApplyWithdraw_Recorded(acc, h, msg) ==
    LET amount == msg.amount[1] IN
    IF acc.available < amount
    THEN [acc |-> acc, hist |-> h, res |-> "PE_INSF"]
    ELSE [acc |-> [acc EXCEPT !.available = @ - amount, !.total = @ - amount],
          hist |-> Insert(h, msg.tx, Transaction("Deposited", amount)),
          res |-> "Ok"]

\* faulty variant of the Withdraw arm: the funds check is missing
ApplyWithdraw_NoCheck(acc, h, msg) ==
    LET amount == msg.amount[1] IN
    [acc |-> [acc EXCEPT !.available = @ - amount, !.total = @ - amount],
     hist |-> h,
     res |-> "Ok"]

\* faulty variant of the Withdraw arm: the whole balance cannot be withdrawn
ApplyWithdraw_Strict(acc, h, msg) ==
    LET amount == msg.amount[1] IN
    IF acc.available <= amount
    THEN [acc |-> acc, hist |-> h, res |-> "PE_INSF"]
    ELSE [acc |-> [acc EXCEPT !.available = @ - amount, !.total = @ - amount],
          hist |-> h,
          res |-> "Ok"]

\* Account<Running>::apply, the Withdraw arm
ApplyWithdraw(acc, h, msg) ==
    LET amount == msg.amount[1] IN
    IF acc.available < amount
    THEN [acc |-> acc, hist |-> h, res |-> "PE_INSF"]
    ELSE [acc |-> [acc EXCEPT !.available = @ - amount, !.total = @ - amount],
          hist |-> h,
          res |-> "Ok"]

\* faulty variant of the Dispute arm: the amount is not added to held
ApplyDispute_NoHold(acc, h, msg) ==
    IF /\ msg.tx \in DOMAIN h
       /\ is_deposited(h[msg.tx])
       /\ acc.available >= h[msg.tx].amount
    THEN LET amount == h[msg.tx].amount IN
         [acc |-> [acc EXCEPT !.available = @ - amount],
          hist |-> Insert(h, msg.tx, Transaction("Disputed", amount)),
          res |-> "Ok"]
    ELSE [acc |-> acc, hist |-> h, res |-> "Ok"]

\* faulty variant of the Dispute arm: the amount is also taken from total
ApplyDispute_DebitTotal(acc, h, msg) ==
    IF /\ msg.tx \in DOMAIN h
       /\ is_deposited(h[msg.tx])
       /\ acc.available >= h[msg.tx].amount
    THEN LET amount == h[msg.tx].amount IN
         [acc |-> [acc EXCEPT !.available = @ - amount, !.held = @ + amount,
                              !.total = @ - amount],
          hist |-> Insert(h, msg.tx, Transaction("Disputed", amount)),
          res |-> "Ok"]
    ELSE [acc |-> acc, hist |-> h, res |-> "Ok"]

\* faulty variant of the Dispute arm: the available funds are not checked
ApplyDispute_NoFundsCheck(acc, h, msg) ==
    IF msg.tx \in DOMAIN h /\ is_deposited(h[msg.tx])
    THEN LET amount == h[msg.tx].amount IN
         [acc |-> [acc EXCEPT !.available = @ - amount, !.held = @ + amount],
          hist |-> Insert(h, msg.tx, Transaction("Disputed", amount)),
          res |-> "Ok"]
    ELSE [acc |-> acc, hist |-> h, res |-> "Ok"]

\* faulty variant of the Dispute arm: the status filter is missing
ApplyDispute_AnyStatus(acc, h, msg) ==
    IF /\ msg.tx \in DOMAIN h
       /\ acc.available >= h[msg.tx].amount
    THEN LET amount == h[msg.tx].amount IN
         [acc |-> [acc EXCEPT !.available = @ - amount, !.held = @ + amount],
          hist |-> Insert(h, msg.tx, Transaction("Disputed", amount)),
          res |-> "Ok"]
    ELSE [acc |-> acc, hist |-> h, res |-> "Ok"]

\* Account<Running>::apply, the Dispute arm
ApplyDispute(acc, h, msg) ==
    IF /\ msg.tx \in DOMAIN h
       /\ is_deposited(h[msg.tx])
       /\ acc.available >= h[msg.tx].amount
    THEN LET amount == h[msg.tx].amount IN
         [acc |-> [acc EXCEPT !.available = @ - amount, !.held = @ + amount],
          hist |-> Insert(h, msg.tx, Transaction("Disputed", amount)),
          res |-> "Ok"]
    ELSE [acc |-> acc, hist |-> h, res |-> "Ok"]

\* faulty variant of the Resolve arm: the amount stays held
ApplyResolve_KeepHeld(acc, h, msg) ==
    IF msg.tx \in DOMAIN h /\ is_disputed(h[msg.tx])
    THEN LET amount == h[msg.tx].amount IN
         [acc |-> [acc EXCEPT !.available = @ + amount],
          hist |-> Insert(h, msg.tx, Transaction("Deposited", amount)),
          res |-> "Ok"]
    ELSE [acc |-> acc, hist |-> h, res |-> "Ok"]

\* faulty variant of the Resolve arm: the status filter is missing
ApplyResolve_AnyStatus(acc, h, msg) ==
    IF msg.tx \in DOMAIN h
    THEN LET amount == h[msg.tx].amount IN
         [acc |-> [acc EXCEPT !.available = @ + amount, !.held = @ - amount],
          hist |-> Insert(h, msg.tx, Transaction("Deposited", amount)),
          res |-> "Ok"]
    ELSE [acc |-> acc, hist |-> h, res |-> "Ok"]

\* Account<Running>::apply, the Resolve arm
ApplyResolve(acc, h, msg) ==
    IF msg.tx \in DOMAIN h /\ is_disputed(h[msg.tx])
    THEN LET amount == h[msg.tx].amount IN
         [acc |-> [acc EXCEPT !.available = @ + amount, !.held = @ - amount],
          hist |-> Insert(h, msg.tx, Transaction("Deposited", amount)),
          res |-> "Ok"]
    ELSE [acc |-> acc, hist |-> h, res |-> "Ok"]

\* faulty variant of the Chargeback arm: the account is not locked
ApplyChargeback_NoLock(acc, h, msg) ==
    IF msg.tx \in DOMAIN h /\ is_disputed(h[msg.tx])
    THEN LET amount == h[msg.tx].amount IN
         [acc |-> [acc EXCEPT !.held = @ - amount, !.total = @ - amount],
          hist |-> Insert(h, msg.tx, Transaction("Reversed", amount)),
          res |-> "Ok"]
    ELSE [acc |-> acc, hist |-> h, res |-> "Ok"]

\* faulty variant of the Chargeback arm: the status filter is missing
ApplyChargeback_AnyStatus(acc, h, msg) ==
    IF msg.tx \in DOMAIN h
    THEN LET amount == h[msg.tx].amount IN
         [acc |-> [acc EXCEPT !.held = @ - amount, !.total = @ - amount,
                              !.locked = TRUE],
          hist |-> Insert(h, msg.tx, Transaction("Reversed", amount)),
          res |-> "Ok"]
    ELSE [acc |-> acc, hist |-> h, res |-> "Ok"]

\* faulty variant of the Chargeback arm: total is not debited
ApplyChargeback_KeepTotal(acc, h, msg) ==
    IF msg.tx \in DOMAIN h /\ is_disputed(h[msg.tx])
    THEN LET amount == h[msg.tx].amount IN
         [acc |-> [acc EXCEPT !.held = @ - amount, !.locked = TRUE],
          hist |-> Insert(h, msg.tx, Transaction("Reversed", amount)),
          res |-> "Ok"]
    ELSE [acc |-> acc, hist |-> h, res |-> "Ok"]

\* Account<Running>::apply, the Chargeback arm
ApplyChargeback(acc, h, msg) ==
    IF msg.tx \in DOMAIN h /\ is_disputed(h[msg.tx])
    THEN LET amount == h[msg.tx].amount IN
         [acc |-> [acc EXCEPT !.held = @ - amount, !.total = @ - amount,
                              !.locked = TRUE],
          hist |-> Insert(h, msg.tx, Transaction("Reversed", amount)),
          res |-> "Ok"]
    ELSE [acc |-> acc, hist |-> h, res |-> "Ok"]

\* faulty variant: the locked check is missing
LockedCheck_Never(acc) == FALSE

\* the locked check that opens Account<Running>::apply
LockedCheck(acc) == acc.locked

\* faulty variant of apply: a Resolve sent to a locked account unlocks it
Apply_ResolveUnlocks(acc, h, msg) ==
    IF LockedCheck(acc)
    THEN IF msg.kind = "Resolve"
         THEN [acc |-> [acc EXCEPT !.locked = FALSE], hist |-> h, res |-> "Ok"]
         ELSE [acc |-> acc, hist |-> h, res |-> "PE_ACCLCK"]
    ELSE CASE msg.kind = "Deposit" -> ApplyDeposit(acc, h, msg)
           [] msg.kind = "Withdraw" -> ApplyWithdraw(acc, h, msg)
           [] msg.kind = "Dispute" -> ApplyDispute(acc, h, msg)
           [] msg.kind = "Resolve" -> ApplyResolve(acc, h, msg)
           [] msg.kind = "Chargeback" -> ApplyChargeback(acc, h, msg)

\* Account<Running>::apply: the account and history after the message, and
\* the result (Ok, or the Display form of the ProcessingError)
Apply(acc, h, msg) ==
    IF LockedCheck(acc)
    THEN [acc |-> acc, hist |-> h, res |-> "PE_ACCLCK"]
    ELSE CASE msg.kind = "Deposit" -> ApplyDeposit(acc, h, msg)
           [] msg.kind = "Withdraw" -> ApplyWithdraw(acc, h, msg)
           [] msg.kind = "Dispute" -> ApplyDispute(acc, h, msg)
           [] msg.kind = "Resolve" -> ApplyResolve(acc, h, msg)
           [] msg.kind = "Chargeback" -> ApplyChargeback(acc, h, msg)

(***************************************************************************)
(* tokio::sync::mpsc, as the program uses it                               *)
(***************************************************************************)
\* faulty variant: the message is queued first
ChanSend_Front(queue, msg) == <<msg>> \o queue

\* Sender::send / blocking_send on a channel with room: the message is queued last
ChanSend(queue, msg) == Append(queue, msg)

(***************************************************************************)
(* State                                                                   *)
(***************************************************************************)
VARIABLES
    nread,        \* records the parser thread has read so far
    parserDone,   \* the parser thread has reached end of file and dropped its Sender
    pchan,        \* the parser channel: messages sent and not yet received
    rpc,          \* the router: "recv" (at rx.recv), "send" (at tx.send), "done"
    rmsg,         \* the message the router is forwarding (Option)
    clients,      \* the keys of the router's clients map (each holds a mailbox Sender)
    mailbox,      \* per client: the account channel's queue
    actor,        \* per client: "none" (never spawned), "running", "done"
    account,      \* per client: the task's Account<Running>
    history,      \* per client: the task's TXHistory
    rchan,        \* the result channel: snapshots sent and not yet received
    out,          \* the snapshots the writer has serialized
    writerDone,   \* the writer thread has returned
    sent,         \* per client: the messages the parser has sent (history variable)
    applied,      \* per client: the messages the task has applied (history variable)
    lastResult    \* per client: the result of the task's latest apply (Option)

vars == <<nread, parserDone, pchan, rpc, rmsg, clients, mailbox, actor, account,
          history, rchan, out, writerDone, sent, applied, lastResult>>

Init ==
    /\ nread = 0
    /\ parserDone = FALSE
    /\ pchan = <<>>
    /\ rpc = "recv"
    /\ rmsg = <<>>
    /\ clients = {}
    /\ mailbox = [c \in Clients |-> <<>>]
    /\ actor = [c \in Clients |-> "none"]
    /\ account = [c \in Clients |-> AccountNew(c)]
    /\ history = [c \in Clients |-> EmptyHistory]
    /\ rchan = <<>>
    /\ out = <<>>
    /\ writerDone = FALSE
    /\ sent = [c \in Clients |-> <<>>]
    /\ applied = [c \in Clients |-> <<>>]
    /\ lastResult = [c \in Clients |-> <<>>]

(***************************************************************************)
(* parser::start, the reader thread                                        *)
(***************************************************************************)
\* one iteration of the for loop, for a file of limit records: a record is
\* read, converted and, when it is a valid message, sent (blocking_send waits
\* while the channel is full)
ParserReadUpTo(record, limit) ==
    LET r == TryFrom(record) IN
    /\ ~parserDone
    /\ nread < limit
    /\ nread' = nread + 1
    /\ IF r # <<>>
       THEN /\ Len(pchan) < PARSER_CHAN_SIZE
            /\ pchan' = ChanSend(pchan, r[1])
            /\ sent' = [sent EXCEPT ![client_id(r[1])] = Append(@, r[1])]
       ELSE UNCHANGED <<pchan, sent>>
    /\ UNCHANGED <<parserDone, rpc, rmsg, clients, mailbox, actor, account, history,
                   rchan, out, writerDone, applied, lastResult>>

\* end of file (the file holds limit records, valid or not): the loop ends
\* and the thread drops the channel's only Sender
ParserEndAt(limit) ==
    /\ ~parserDone
    /\ nread = limit
    /\ parserDone' = TRUE
    /\ UNCHANGED <<nread, pchan, rpc, rmsg, clients, mailbox, actor, account, history,
                   rchan, out, writerDone, sent, applied, lastResult>>

ParserRead(record) == ParserReadUpTo(record, MaxRecords)

ParserEnd == ParserEndAt(MaxRecords)

(***************************************************************************)
(* processor::start, the router                                            *)
(***************************************************************************)
\* faulty variant: the lookup never finds the client's entry
NoEntry_Always(client) == TRUE

\* clients.get(&client_id).is_none()
NoEntry(client) == client \notin clients

\* faulty variant: the Deposit that creates the account is not forwarded
RouterRecv_CreateConsumes ==
    /\ rpc = "recv"
    /\ pchan # <<>>
    /\ LET msg == Head(pchan)
           client == client_id(msg)
       IN
       /\ pchan' = Tail(pchan)
       /\ IF NoEntry(client) /\ ~should_create_account(msg)
          THEN UNCHANGED <<rpc, rmsg, clients, mailbox, actor, account, history>>
          ELSE IF NoEntry(client)
               THEN /\ clients' = clients \cup {client}
                    /\ mailbox' = [mailbox EXCEPT ![client] = <<>>]
                    /\ actor' = [actor EXCEPT ![client] = "running"]
                    /\ account' = [account EXCEPT ![client] = AccountNew(client)]
                    /\ history' = [history EXCEPT ![client] = EmptyHistory]
                    /\ UNCHANGED <<rpc, rmsg>>
               ELSE /\ rpc' = "send"
                    /\ rmsg' = <<msg>>
                    /\ UNCHANGED <<clients, mailbox, actor, account, history>>
    /\ UNCHANGED <<nread, parserDone, rchan, out, writerDone, sent, applied, lastResult>>

\* rx.recv() returns Some(msg); the loop body runs up to tx.send(msg)
RouterRecv ==
    /\ rpc = "recv"
    /\ pchan # <<>>
    /\ LET msg == Head(pchan)
           client == client_id(msg)
       IN
       /\ pchan' = Tail(pchan)
       /\ IF NoEntry(client) /\ ~should_create_account(msg)
          THEN \* "Got out of order message", continue
               UNCHANGED <<rpc, rmsg, clients, mailbox, actor, account, history>>
          ELSE /\ rpc' = "send"
               /\ rmsg' = <<msg>>
               /\ IF NoEntry(client)
                  THEN \* Account::new(client_id).start(done_tx.clone())
                       /\ clients' = clients \cup {client}
                       /\ mailbox' = [mailbox EXCEPT ![client] = <<>>]
                       /\ actor' = [actor EXCEPT ![client] = "running"]
                       /\ account' = [account EXCEPT ![client] = AccountNew(client)]
                       /\ history' = [history EXCEPT ![client] = EmptyHistory]
                  ELSE UNCHANGED <<clients, mailbox, actor, account, history>>
    /\ UNCHANGED <<nread, parserDone, rchan, out, writerDone, sent, applied, lastResult>>

\* faulty variant: the mailbox takes messages beyond its capacity
MailboxHasRoom_Unbounded(client) == TRUE

\* mpsc::channel(ACCOUNT_CHAN_SIZE): a send completes only while the queue
\* holds fewer messages than its capacity
MailboxHasRoom(client) == Len(mailbox[client]) < ACCOUNT_CHAN_SIZE

\* tx.send(msg).await completes: the message is queued, or the send fails
\* because the task's Receiver is gone and the message is dropped
RouterSend ==
    /\ rpc = "send"
    /\ LET msg == rmsg[1]
           client == client_id(msg)
       IN
       IF actor[client] = "done"
       THEN UNCHANGED mailbox
       ELSE /\ MailboxHasRoom(client)
            /\ mailbox' = [mailbox EXCEPT ![client] = ChanSend(@, msg)]
    /\ rpc' = "recv"
    /\ rmsg' = <<>>
    /\ UNCHANGED <<nread, parserDone, pchan, clients, actor, account, history,
                   rchan, out, writerDone, sent, applied, lastResult>>

\* faulty variant: start returns but the mailbox handles stay alive
RouterExit_KeepsHandles ==
    /\ rpc = "recv"
    /\ pchan = <<>>
    /\ parserDone
    /\ rpc' = "done"
    /\ UNCHANGED <<nread, parserDone, pchan, rmsg, clients, mailbox, actor, account,
                   history, rchan, out, writerDone, sent, applied, lastResult>>

\* rx.recv() returns None: start returns, dropping clients and done_tx
RouterExit ==
    /\ rpc = "recv"
    /\ pchan = <<>>
    /\ parserDone
    /\ rpc' = "done"
    /\ clients' = {}
    /\ UNCHANGED <<nread, parserDone, pchan, rmsg, mailbox, actor, account, history,
                   rchan, out, writerDone, sent, applied, lastResult>>

(***************************************************************************)
(* Account<Ready>::start, the spawned task                                 *)
(***************************************************************************)
\* faulty variant: a Sender of the mailbox outlives the router
MailboxClosed_Never(c) == FALSE

\* faulty variant: an empty mailbox is taken for a closed one
MailboxClosed_Always(c) == TRUE

\* every Sender of the client's mailbox has been dropped: the only one is
\* the value the router keeps in clients
MailboxClosed(c) == c \notin clients

\* faulty variant: one history is shared by the tasks of all clients
ActorApply_SharedHistory(c) ==
    /\ actor[c] = "running"
    /\ mailbox[c] # <<>>
    /\ LET msg == Head(mailbox[c])
           r == Apply(account[c], history[c], msg)
       IN
       /\ mailbox' = [mailbox EXCEPT ![c] = Tail(@)]
       /\ account' = [account EXCEPT ![c] = r.acc]
       /\ history' = [d \in Clients |-> r.hist]
       /\ applied' = [applied EXCEPT ![c] = Append(@, msg)]
       /\ lastResult' = [lastResult EXCEPT ![c] = <<r.res>>]
    /\ UNCHANGED <<nread, parserDone, pchan, rpc, rmsg, clients, actor,
                   rchan, out, writerDone, sent>>

\* faulty variant: the task ends, without a snapshot, at the first message
\* that apply rejects
ActorApply_HaltOnError(c) ==
    /\ actor[c] = "running"
    /\ mailbox[c] # <<>>
    /\ LET msg == Head(mailbox[c])
           r == Apply(account[c], history[c], msg)
       IN
       /\ mailbox' = [mailbox EXCEPT ![c] = Tail(@)]
       /\ account' = [account EXCEPT ![c] = r.acc]
       /\ history' = [history EXCEPT ![c] = r.hist]
       /\ applied' = [applied EXCEPT ![c] = Append(@, msg)]
       /\ lastResult' = [lastResult EXCEPT ![c] = <<r.res>>]
       /\ actor' = [actor EXCEPT ![c] = IF r.res = "Ok" THEN @ ELSE "done"]
    /\ UNCHANGED <<nread, parserDone, pchan, rpc, rmsg, clients,
                   rchan, out, writerDone, sent>>

\* rx.recv() returns Some(msg) and the message is applied
ActorApply(c) ==
    /\ actor[c] = "running"
    /\ mailbox[c] # <<>>
    /\ LET msg == Head(mailbox[c])
           r == Apply(account[c], history[c], msg)
       IN
       /\ mailbox' = [mailbox EXCEPT ![c] = Tail(@)]
       /\ account' = [account EXCEPT ![c] = r.acc]
       /\ history' = [history EXCEPT ![c] = r.hist]
       /\ applied' = [applied EXCEPT ![c] = Append(@, msg)]
       /\ lastResult' = [lastResult EXCEPT ![c] = <<r.res>>]
    /\ UNCHANGED <<nread, parserDone, pchan, rpc, rmsg, clients, actor,
                   rchan, out, writerDone, sent>>

\* faulty variant: the task emits as soon as every Sender is dropped, with
\* messages still queued
ActorEmit_DropsQueued(c) ==
    /\ actor[c] = "running"
    /\ MailboxClosed(c)
    /\ IF writerDone
       THEN UNCHANGED rchan
       ELSE /\ Len(rchan) < RESULT_CHAN_SIZE
            /\ rchan' = ChanSend(rchan, account[c])
    /\ actor' = [actor EXCEPT ![c] = "done"]
    /\ UNCHANGED <<nread, parserDone, pchan, rpc, rmsg, clients, mailbox, account,
                   history, out, writerDone, sent, applied, lastResult>>

\* rx.recv() returns None (every Sender dropped, queue empty); the account
\* is sent on the result channel (the send waits while it is full, and fails
\* when the writer's Receiver is gone) and the task ends
ActorEmit(c) ==
    /\ actor[c] = "running"
    /\ mailbox[c] = <<>>
    /\ MailboxClosed(c)
    /\ IF writerDone
       THEN UNCHANGED rchan
       ELSE /\ Len(rchan) < RESULT_CHAN_SIZE
            /\ rchan' = ChanSend(rchan, account[c])
    /\ actor' = [actor EXCEPT ![c] = "done"]
    /\ UNCHANGED <<nread, parserDone, pchan, rpc, rmsg, clients, mailbox, account,
                   history, out, writerDone, sent, applied, lastResult>>

(***************************************************************************)
(* main: the writer thread                                                 *)
(***************************************************************************)
\* faulty variant: the router's done_tx is not counted
ResultSendersGone_TasksOnly == \A c \in Clients : actor[c] # "running"

\* faulty variant: the tasks' clones of done_tx are not counted
ResultSendersGone_RouterOnly == rpc = "done"

\* every Sender of the result channel has been dropped: done_tx, which the
\* router owns, and the clone each task owns
ResultSendersGone == rpc = "done" /\ \A c \in Clients : actor[c] # "running"

\* done_rx.blocking_recv() returns Some(account), which is serialized
WriterRecv ==
    /\ ~writerDone
    /\ rchan # <<>>
    /\ out' = Append(out, Head(rchan))
    /\ rchan' = Tail(rchan)
    /\ UNCHANGED <<nread, parserDone, pchan, rpc, rmsg, clients, mailbox, actor,
                   account, history, writerDone, sent, applied, lastResult>>

\* done_rx.blocking_recv() returns None and the thread returns
WriterExit ==
    /\ ~writerDone
    /\ rchan = <<>>
    /\ ResultSendersGone
    /\ writerDone' = TRUE
    /\ UNCHANGED <<nread, parserDone, pchan, rpc, rmsg, clients, mailbox, actor,
                   account, history, rchan, out, sent, applied, lastResult>>

Next ==
    \/ \E record \in Record : ParserRead(record)
    \/ ParserEnd
    \/ RouterRecv
    \/ RouterSend
    \/ RouterExit
    \/ \E c \in Clients : ActorApply(c)
    \/ \E c \in Clients : ActorEmit(c)
    \/ WriterRecv
    \/ WriterExit

Spec == Init /\ [][Next]_vars

\* The tokio runtime polls a task that is ready and the writer is a thread of
\* its own: while a step of the router, of a task or of the writer is
\* possible, one of them is eventually taken.
Fairness ==
    WF_vars(\/ RouterRecv
            \/ RouterSend
            \/ RouterExit
            \/ \E c \in Clients : ActorApply(c)
            \/ \E c \in Clients : ActorEmit(c)
            \/ WriterRecv
            \/ WriterExit)

SpecFair == Spec /\ Fairness

\* Longer files of valid records with positive amounts: any such record of
\* client 1, and deposits by client 2
DeepRecord ==
    {r \in Record :
        /\ TryFrom(r) # <<>>
        /\ r.amount # <<-1>>
        /\ r.client = 2 => r.kind = "deposit"}

NextDeep ==
    \/ \E record \in DeepRecord : ParserReadUpTo(record, MaxDeepRecords)
    \/ ParserEndAt(MaxDeepRecords)
    \/ RouterRecv
    \/ RouterSend
    \/ RouterExit
    \/ \E c \in Clients : ActorApply(c)
    \/ \E c \in Clients : ActorEmit(c)
    \/ WriterRecv
    \/ WriterExit

SpecDeep == Init /\ [][NextDeep]_vars

(***************************************************************************)
(* processor.rs, mod tests: an Account<Running> built by running(id) and a *)
(* fresh TXHistory, with apply called on them directly                     *)
(***************************************************************************)
TestApply(msg) ==
    LET c == client_id(msg)
        r == Apply(account[c], history[c], msg)
    IN
    /\ Len(applied[c]) < MaxApplied
    /\ account' = [account EXCEPT ![c] = r.acc]
    /\ history' = [history EXCEPT ![c] = r.hist]
    /\ applied' = [applied EXCEPT ![c] = Append(@, msg)]
    /\ lastResult' = [lastResult EXCEPT ![c] = <<r.res>>]
    /\ UNCHANGED <<nread, parserDone, pchan, rpc, rmsg, clients, mailbox, actor,
                   rchan, out, writerDone, sent>>

NextApply == \E msg \in TestMessage : TestApply(msg)

SpecApply == Init /\ [][NextApply]_vars

(***************************************************************************)
(* Properties                                                              *)
(***************************************************************************)
Last(q) == q[Len(q)]

\* the messages of queue q that belong to client c, in order
Sel(q, c) == SelectSeq(q, LAMBDA m : client_id(m) = c)

\* the snapshots of client c in a sequence of snapshots
SnapshotsOf(q, c) == {i \in DOMAIN q : q[i].client = c}

\* the message the router is forwarding, when it belongs to client c
Pending(c) == Sel(rmsg, c)

Balanced(acc) == acc.available + acc.held = acc.total

\* the left fold of apply over msgs, from the state st = [acc, hist]
RECURSIVE FoldApply(_, _)
FoldApply(st, msgs) ==
    IF msgs = <<>>
    THEN st
    ELSE LET r == Apply(st.acc, st.hist, Head(msgs)) IN
         FoldApply([acc |-> r.acc, hist |-> r.hist], Tail(msgs))

\* the left fold of apply over msgs from a fresh account of client c
Replay(c, msgs) == FoldApply([acc |-> AccountNew(c), hist |-> EmptyHistory], msgs)

\* C1: in every state of every account, and in every snapshot sent to or
\* written by the writer, available + held = total.
C1_Balanced ==
    /\ \A c \in Clients : Balanced(account[c])
    /\ \A i \in DOMAIN rchan : Balanced(rchan[i])
    /\ \A i \in DOMAIN out : Balanced(out[i])

\* a snapshot has been written of an account that holds disputed funds
C1_Witness ==
    \E i \in DOMAIN out : out[i].held # 0 /\ out[i].total # 0

\* C2: the snapshot of each client is the left fold of apply over all of that
\* client's messages of the stream, in their order, from a fresh account.
C2_SnapshotIsFoldOfStream ==
    \A i \in DOMAIN out : out[i] = Replay(out[i].client, sent[out[i].client]).acc

\* C3: per client, the messages applied, then those queued in the mailbox,
\* then the one the router is sending, then those still in the parser
\* channel are the client's messages of the stream in stream order, less a
\* prefix of messages the router dropped, none of which is a Deposit: the
\* task applies what the router forwards, in order and once.
C3_PerClientFifo ==
    \A c \in Clients :
        LET inflight == applied[c] \o mailbox[c] \o Pending(c) \o Sel(pchan, c)
            k == Len(sent[c]) - Len(inflight)
        IN
        /\ k >= 0
        /\ inflight = SubSeq(sent[c], k + 1, Len(sent[c]))
        /\ \A i \in 1..k : ~is_deposit(sent[c][i])
        /\ (actor[c] = "none") = (applied[c] \o mailbox[c] \o Pending(c) = <<>>)

\* one client's task has applied two different messages while the other
\* client's task has applied one
C3_Witness ==
    \E c, d \in Clients :
        /\ c # d
        /\ Len(applied[c]) = 2
        /\ applied[c][1] # applied[c][2]
        /\ Len(applied[d]) = 1

\* C4: no client ever has two snapshots, and when the writer has finished it
\* has written exactly one snapshot for every client with an account (a
\* client with a Deposit in the stream) and none for any other client.
C4_OneSnapshotPerAccount ==
    /\ \A c \in Clients : Cardinality(SnapshotsOf(rchan \o out, c)) <= 1
    /\ writerDone =>
        \A c \in Clients :
            /\ (actor[c] # "none") = (\E i \in DOMAIN sent[c] : is_deposit(sent[c][i]))
            /\ Cardinality(SnapshotsOf(out, c)) = (IF actor[c] # "none" THEN 1 ELSE 0)

\* the run has ended with a snapshot for one client and none for the other,
\* which had messages but no Deposit
C4_Witness ==
    /\ writerDone
    /\ \E c, d \in Clients :
        /\ SnapshotsOf(out, c) # {}
        /\ SnapshotsOf(out, d) = {}
        /\ sent[d] # <<>>

\* C5: whenever a snapshot has been emitted (a task has ended, a snapshot is
\* in the result channel or written), the parser has reached end of file, the
\* parser channel is empty and the router has returned and holds no mailbox
\* handle.
C5_EmitAfterShutdown ==
    (rchan # <<>> \/ out # <<>> \/ \E c \in Clients : actor[c] = "done") =>
        /\ parserDone
        /\ pchan = <<>>
        /\ rmsg = <<>>
        /\ rpc = "done"
        /\ clients = {}

\* a snapshot has been written of an account that applied two messages
C5_Witness ==
    \E i \in DOMAIN out : Len(applied[out[i].client]) >= 2

\* C6: under fair scheduling, once the parser has reached end of file the
\* router eventually returns and holds no handle, and every task that was
\* started has drained its mailbox, sent its snapshot and ended.
C6_ShutdownCompletes ==
    parserDone ~>
        /\ rpc = "done"
        /\ clients = {}
        /\ \A c \in Clients :
            /\ actor[c] # "running"
            /\ mailbox[c] = <<>>
            /\ actor[c] = "done" => SnapshotsOf(rchan \o out, c) # {}

\* the router has returned and both clients' tasks have ended, each having
\* applied a message
C6_Witness ==
    /\ rpc = "done"
    /\ \A c \in Clients : actor[c] = "done" /\ applied[c] # <<>>

C8_LockedRejectsAll ==
    [][\A c \in Clients :
        (applied'[c] # applied[c] /\ account[c].locked) =>
            /\ lastResult'[c] = <<"PE_ACCLCK">>
            /\ account'[c] = account[c]
            /\ history'[c] = history[c]]_vars

\* a Deposit has been rejected with AccountLocked
C8_Witness ==
    \E c \in Clients :
        /\ account[c].locked
        /\ lastResult[c] = <<"PE_ACCLCK">>
        /\ Last(applied[c]).kind = "Deposit"

\* C9: when the router receives a message that is not a Deposit for a client
\* without a directory entry, the step changes nothing but the parser
\* channel; and the step that starts a client's task receives a Deposit of
\* that client and leaves a zero, unlocked account with an empty history and
\* an empty mailbox.
C9_DropWithoutAccount ==
    [][/\ (/\ rpc = "recv"
           /\ pchan # <<>>
           /\ pchan' = Tail(pchan)
           /\ Head(pchan).kind # "Deposit"
           /\ Head(pchan).client \notin clients)
          => UNCHANGED <<rpc, rmsg, clients, mailbox, actor, account, history,
                         rchan, out, applied, lastResult>>
       /\ \A c \in Clients :
            (actor[c] = "none" /\ actor'[c] # "none") =>
                /\ pchan # <<>>
                /\ Head(pchan).kind = "Deposit"
                /\ Head(pchan).client = c
                /\ account'[c].available = 0
                /\ account'[c].held = 0
                /\ account'[c].total = 0
                /\ account'[c].locked = FALSE
                /\ history'[c] = <<>>
                /\ mailbox'[c] = <<>>
                /\ clients' = clients \cup {c}]_vars

\* a client whose first message was dropped has had its account created by a
\* later Deposit, which is the only message applied to it
C9_Witness ==
    \E c \in Clients :
        /\ Len(sent[c]) = 2
        /\ ~is_deposit(sent[c][1])
        /\ applied[c] = <<sent[c][2]>>
        /\ account[c].available = sent[c][2].amount[1]

\* C10: a Deposit applied to an unlocked account returns Ok, adds its amount
\* to available and to total, leaves held and locked as they were, records
\* Deposited(amount) under its transaction id and leaves every other entry
\* of the history as it was.
C10_Deposit ==
    [][\A c \in Clients :
        (/\ applied'[c] # applied[c]
         /\ Last(applied'[c]).kind = "Deposit"
         /\ ~account[c].locked) =>
            LET msg == Last(applied'[c])
                amount == msg.amount[1]
            IN
            /\ lastResult'[c] = <<"Ok">>
            /\ account'[c].available = account[c].available + amount
            /\ account'[c].total = account[c].total + amount
            /\ account'[c].held = account[c].held
            /\ account'[c].locked = account[c].locked
            /\ account'[c].client = account[c].client
            /\ DOMAIN history'[c] = (DOMAIN history[c]) \cup {msg.tx}
            /\ history'[c][msg.tx] = [status |-> "Deposited", amount |-> amount]
            /\ \A t \in (DOMAIN history[c]) \ {msg.tx} :
                history'[c][t] = history[c][t]]_vars

\* a Deposit has been applied over an existing entry of its own transaction
\* id while the history holds a disputed entry of another id
C10_Witness ==
    \E c \in Clients :
        /\ applied[c] # <<>>
        /\ Last(applied[c]).kind = "Deposit"
        /\ lastResult[c] = <<"Ok">>
        /\ Cardinality(DOMAIN history[c]) = 2
        /\ \E t \in DOMAIN history[c] : history[c][t].status = "Disputed"
        /\ \E i \in 1..(Len(applied[c]) - 1) :
            applied[c][i].kind = "Deposit" /\ applied[c][i].tx = Last(applied[c]).tx

\* the account and history of client c before its latest applied message
Before(c) == Replay(c, SubSeq(applied[c], 1, Len(applied[c]) - 1))

\* the step applies a message of the given kind to the unlocked account of c
AppliesUnlocked(c, kind) ==
    /\ applied'[c] # applied[c]
    /\ Last(applied'[c]).kind = kind
    /\ ~account[c].locked

\* the step leaves the account and the history of c as they were
NoChange(c) == account'[c] = account[c] /\ history'[c] = history[c]

\* the history of c holds an entry of the given status under tx
HasStatus(h, tx, status) == tx \in DOMAIN h /\ h[tx].status = status

\* C11: a Withdraw applied to an unlocked account whose available is less
\* than the amount returns InsufficientFunds and changes nothing.
C11_WithdrawInsufficient ==
    [][\A c \in Clients :
        (/\ AppliesUnlocked(c, "Withdraw")
         /\ account[c].available < Last(applied'[c]).amount[1]) =>
            /\ lastResult'[c] = <<"PE_INSF">>
            /\ NoChange(c)]_vars

\* a Withdraw of more than a positive available balance has been rejected
C11_Witness ==
    \E c \in Clients :
        /\ applied[c] # <<>>
        /\ Last(applied[c]).kind = "Withdraw"
        /\ lastResult[c] = <<"PE_INSF">>
        /\ account[c].available > 0

\* C12: a Withdraw applied to an unlocked account whose available is at least
\* the amount returns Ok, takes the amount from available and from total and
\* leaves held, locked and the history (keys included) as they were.
C12_WithdrawSufficient ==
    [][\A c \in Clients :
        (/\ AppliesUnlocked(c, "Withdraw")
         /\ account[c].available >= Last(applied'[c]).amount[1]) =>
            LET amount == Last(applied'[c]).amount[1] IN
            /\ lastResult'[c] = <<"Ok">>
            /\ account'[c].available = account[c].available - amount
            /\ account'[c].total = account[c].total - amount
            /\ account'[c].held = account[c].held
            /\ account'[c].locked = account[c].locked
            /\ history'[c] = history[c]]_vars

\* the whole of a positive available balance has been withdrawn, with a tx
\* id that is not in the history
C12_Witness ==
    \E c \in Clients :
        /\ applied[c] # <<>>
        /\ Last(applied[c]).kind = "Withdraw"
        /\ lastResult[c] = <<"Ok">>
        /\ Last(applied[c]).amount[1] > 0
        /\ account[c].available = 0
        /\ Before(c).acc.available = Last(applied[c]).amount[1]
        /\ Last(applied[c]).tx \notin DOMAIN history[c]

\* C13: a Dispute applied to an unlocked account whose history holds the tx
\* as Deposited with an amount of at most available moves that amount from
\* available to held, leaves total and locked, and sets the entry to Disputed
\* with the same amount, leaving the other entries.
C13_DisputeSucceeds ==
    [][\A c \in Clients :
        (/\ AppliesUnlocked(c, "Dispute")
         /\ HasStatus(history[c], Last(applied'[c]).tx, "Deposited")
         /\ account[c].available >= history[c][Last(applied'[c]).tx].amount) =>
            LET tx == Last(applied'[c]).tx
                amount == history[c][tx].amount
            IN
            /\ lastResult'[c] = <<"Ok">>
            /\ account'[c].available = account[c].available - amount
            /\ account'[c].held = account[c].held + amount
            /\ account'[c].total = account[c].total
            /\ account'[c].locked = account[c].locked
            /\ DOMAIN history'[c] = DOMAIN history[c]
            /\ history'[c][tx] = [status |-> "Disputed", amount |-> amount]
            /\ \A t \in (DOMAIN history[c]) \ {tx} : history'[c][t] = history[c][t]]_vars

\* a deposit of 2 has been disputed and is held
C13_Witness ==
    \E c \in Clients :
        /\ applied[c] # <<>>
        /\ Last(applied[c]).kind = "Dispute"
        /\ HasStatus(Before(c).hist, Last(applied[c]).tx, "Deposited")
        /\ HasStatus(history[c], Last(applied[c]).tx, "Disputed")
        /\ account[c].held = 2

\* C14: a Dispute applied to an unlocked account whose history does not hold
\* the tx, or holds it as Disputed or Reversed, or holds it with an amount
\* greater than available, returns Ok and changes nothing.
C14_DisputeNoOp ==
    [][\A c \in Clients :
        (/\ AppliesUnlocked(c, "Dispute")
         /\ LET tx == Last(applied'[c]).tx IN
            \/ tx \notin DOMAIN history[c]
            \/ history[c][tx].status \in {"Disputed", "Reversed"}
            \/ account[c].available < history[c][tx].amount) =>
            /\ lastResult'[c] = <<"Ok">>
            /\ NoChange(c)]_vars

\* a Dispute has been applied to a transaction that was already disputed,
\* with available funds that would cover its amount again
C14_Witness ==
    \E c \in Clients :
        /\ applied[c] # <<>>
        /\ Last(applied[c]).kind = "Dispute"
        /\ HasStatus(Before(c).hist, Last(applied[c]).tx, "Disputed")
        /\ Before(c).acc.available >= Before(c).hist[Last(applied[c]).tx].amount
        /\ account[c].held = Before(c).hist[Last(applied[c]).tx].amount
        /\ account[c].held > 0

\* C15: a Resolve applied to an unlocked account whose history holds the tx
\* as Disputed moves the amount from held to available and sets the entry to
\* Deposited; in every other case it changes nothing.  It returns Ok and
\* leaves total and locked in both cases.
C15_Resolve ==
    [][\A c \in Clients :
        AppliesUnlocked(c, "Resolve") =>
            LET tx == Last(applied'[c]).tx IN
            /\ lastResult'[c] = <<"Ok">>
            /\ account'[c].total = account[c].total
            /\ account'[c].locked = account[c].locked
            /\ IF HasStatus(history[c], tx, "Disputed")
               THEN LET amount == history[c][tx].amount IN
                    /\ account'[c].available = account[c].available + amount
                    /\ account'[c].held = account[c].held - amount
                    /\ DOMAIN history'[c] = DOMAIN history[c]
                    /\ history'[c][tx] = [status |-> "Deposited", amount |-> amount]
                    /\ \A t \in (DOMAIN history[c]) \ {tx} :
                        history'[c][t] = history[c][t]
               ELSE NoChange(c)]_vars

\* a disputed deposit has been resolved in a history that holds another
\* transaction, and its amount is available again
C15_Witness ==
    \E c \in Clients :
        /\ applied[c] # <<>>
        /\ Last(applied[c]).kind = "Resolve"
        /\ HasStatus(Before(c).hist, Last(applied[c]).tx, "Disputed")
        /\ HasStatus(history[c], Last(applied[c]).tx, "Deposited")
        /\ Before(c).acc.held > 0
        /\ account[c].held = 0
        /\ \E t \in DOMAIN history[c] : t # Last(applied[c]).tx

\* C16: a Chargeback applied to an unlocked account whose history holds the
\* tx as Disputed takes the amount from held and from total, leaves
\* available, sets the entry to Reversed and locks the account; in every
\* other case it changes nothing and does not lock.  It returns Ok in both
\* cases.
C16_Chargeback ==
    [][\A c \in Clients :
        AppliesUnlocked(c, "Chargeback") =>
            LET tx == Last(applied'[c]).tx IN
            /\ lastResult'[c] = <<"Ok">>
            /\ IF HasStatus(history[c], tx, "Disputed")
               THEN LET amount == history[c][tx].amount IN
                    /\ account'[c].held = account[c].held - amount
                    /\ account'[c].total = account[c].total - amount
                    /\ account'[c].available = account[c].available
                    /\ account'[c].locked = TRUE
                    /\ DOMAIN history'[c] = DOMAIN history[c]
                    /\ history'[c][tx] = [status |-> "Reversed", amount |-> amount]
                    /\ \A t \in (DOMAIN history[c]) \ {tx} :
                        history'[c][t] = history[c][t]
               ELSE NoChange(c) /\ ~account'[c].locked]_vars

\* a disputed deposit has been charged back from an account that keeps a
\* non-zero available balance
C16_Witness ==
    \E c \in Clients :
        /\ applied[c] # <<>>
        /\ Last(applied[c]).kind = "Chargeback"
        /\ HasStatus(Before(c).hist, Last(applied[c]).tx, "Disputed")
        /\ HasStatus(history[c], Last(applied[c]).tx, "Reversed")
        /\ account[c].locked
        /\ account[c].available # 0

\* the messages of q from its first Deposit on: those the router forwards
FromFirstDeposit(q) ==
    IF \E i \in DOMAIN q : is_deposit(q[i])
    THEN LET first == CHOOSE i \in DOMAIN q :
                        is_deposit(q[i]) /\ \A j \in 1..(i - 1) : ~is_deposit(q[j])
         IN SubSeq(q, first, Len(q))
    ELSE <<>>

\* the result apply gave for the k-th message applied for client c
ResultAt(c, k) ==
    LET st == Replay(c, SubSeq(applied[c], 1, k - 1)) IN
    Apply(st.acc, st.hist, applied[c][k]).res

\* the snapshots sent by the tasks, written or not yet
Emitted == out \o rchan

\* C17: whatever apply returned before, a running task with a queued message
\* can consume it; a task that has ended has consumed every message the
\* router forwarded to it and has sent exactly one snapshot, equal to its
\* account; and a locked account holds the balances it had right after the
\* chargeback that locked it.
C17_FailureNeverHalts ==
    \A c \in Clients :
        /\ (actor[c] = "running" /\ mailbox[c] # <<>>) => ENABLED ActorApply(c)
        /\ actor[c] = "done" =>
            /\ mailbox[c] = <<>>
            /\ applied[c] = FromFirstDeposit(sent[c])
            /\ \E i \in DOMAIN Emitted :
                /\ SnapshotsOf(Emitted, c) = {i}
                /\ Emitted[i] = account[c]
        /\ account[c].locked =>
            \E k \in DOMAIN applied[c] :
                /\ applied[c][k].kind = "Chargeback"
                /\ ~Replay(c, SubSeq(applied[c], 1, k - 1)).acc.locked
                /\ account[c] = Replay(c, SubSeq(applied[c], 1, k)).acc

\* the locked snapshot of a client has been written after its task consumed
\* a message that followed a rejected one, both after the chargeback
C17_Witness ==
    \E c \in Clients, i \in DOMAIN out :
        /\ out[i].client = c
        /\ out[i].locked
        /\ \E k \in 1..(Len(applied[c]) - 1) : ResultAt(c, k) = "PE_ACCLCK"

\* the router waits in tx.send on the full mailbox of a running task
RouterSuspended ==
    /\ rpc = "send"
    /\ actor[client_id(rmsg[1])] # "done"
    /\ Len(mailbox[client_id(rmsg[1])]) >= ACCOUNT_CHAN_SIZE

\* C18: no mailbox holds more than ACCOUNT_CHAN_SIZE messages; while the
\* router waits on a full mailbox its send cannot complete and every other
\* running task with a queued message can apply it; and the wait ends only
\* with a step in which the task of that mailbox consumes a message.
C18_Backpressure ==
    /\ [](\A c \in Clients :
            /\ Len(mailbox[c]) <= ACCOUNT_CHAN_SIZE
            /\ RouterSuspended =>
                /\ ~ENABLED RouterSend
                /\ (actor[c] = "running" /\ mailbox[c] # <<>>) => ENABLED ActorApply(c))
    /\ [][RouterSuspended =>
            \/ RouterSuspended'
            \/ applied'[client_id(rmsg[1])] # applied[client_id(rmsg[1])]]_vars

\* the router waits on the full mailbox of client 1 while the task of
\* client 2 has a message queued
C18_Witness ==
    /\ RouterSuspended
    /\ client_id(rmsg[1]) = 1
    /\ actor[2] = "running"
    /\ mailbox[2] # <<>>

\* C19: the account and the history of each client are the fold of apply
\* over the messages applied for that client alone, all of which carry its
\* client id; and a step changes the account or the history of a client only
\* by applying a message of that client (or by creating its fresh account).
C19_Isolation ==
    /\ [](\A c \in Clients :
            /\ \A k \in DOMAIN applied[c] : client_id(applied[c][k]) = c
            /\ account[c] = Replay(c, applied[c]).acc
            /\ history[c] = Replay(c, applied[c]).hist)
    /\ [][\A c \in Clients :
            (account'[c] # account[c] \/ history'[c] # history[c]) =>
                \/ /\ applied'[c] # applied[c]
                   /\ client_id(Last(applied'[c])) = c
                   /\ \A d \in Clients \ {c} :
                        account'[d] = account[d] /\ history'[d] = history[d]
                \/ actor[c] = "none" /\ actor'[c] = "running"]_vars

\* both clients have used tx id 1, and a dispute of client 1 has changed only
\* the entry of client 1
C19_Witness ==
    /\ HasStatus(history[1], 1, "Disputed")
    /\ HasStatus(history[2], 1, "Deposited")
    /\ account[1].held # 0
    /\ account[2].held = 0
    /\ account[2].total # 0

\* C20: a client in the directory has a running task, a task that has ended
\* is out of the directory and the router has returned, and the router never
\* forwards to a task that has ended; a task only goes from not started to
\* running to ended; once started, its account, history and mailbox are
\* changed only by its own consumption (never reset by a second start); and
\* a message received for a client in the directory is forwarded to the
\* existing task, leaving the directory as it was.
C20_OneActorPerClient ==
    /\ [](\A c \in Clients :
            /\ c \in clients => actor[c] = "running"
            /\ actor[c] = "done" => (c \notin clients /\ rpc = "done")
            /\ (rpc = "send" /\ client_id(rmsg[1]) = c) => actor[c] = "running")
    /\ [][\A c \in Clients :
            /\ actor'[c] # actor[c] =>
                \/ actor[c] = "none" /\ actor'[c] = "running"
                \/ actor[c] = "running" /\ actor'[c] = "done"
            /\ (/\ actor[c] # "none"
                /\ \/ account'[c] # account[c]
                   \/ history'[c] # history[c]
                   \/ Len(mailbox'[c]) < Len(mailbox[c])) =>
                    applied'[c] # applied[c]
            /\ (/\ c \in clients
                /\ pchan # <<>>
                /\ pchan' = Tail(pchan)
                /\ client_id(Head(pchan)) = c) =>
                    /\ clients' = clients
                    /\ actor'[c] = actor[c]
                    /\ mailbox'[c] = mailbox[c]
                    /\ rmsg' = <<Head(pchan)>>]_vars

\* a second Deposit of a client was applied to the account its first Deposit
\* created, and the task has ended
C20_Witness ==
    \E c \in Clients :
        /\ Len(applied[c]) >= 2
        /\ is_deposit(applied[c][1])
        /\ is_deposit(applied[c][2])
        /\ account[c].total = applied[c][1].amount[1] + applied[c][2].amount[1]
        /\ account[c].total # 0
        /\ actor[c] = "done"

\* the shape a record must have to become a Message
ValidShape(record) ==
    \/ record.kind \in {"deposit", "withdrawal"} /\ record.amount # <<>>
    \/ record.kind \in {"dispute", "resolve", "chargeback"} /\ record.amount = <<>>

\* a message with an amount exactly when it is a Deposit or a Withdraw
WellFormed(m) == (m.kind \in {"Deposit", "Withdraw"}) <=> (m.amount # <<>>)

\* every message between the parser and the tasks
InFlight ==
    {pchan[i] : i \in DOMAIN pchan} \cup {rmsg[i] : i \in DOMAIN rmsg}
    \cup UNION {{mailbox[c][i] : i \in DOMAIN mailbox[c]} : c \in Clients}
    \cup UNION {{applied[c][i] : i \in DOMAIN applied[c]} : c \in Clients}

\* C21: TryFrom yields a Message for exactly the records of valid shape;
\* every message that reaches the router or a task is well formed; and a
\* step of the reader either sends the Message of a record of valid shape or
\* sends nothing.
C21_OnlyValidRecordsBecomeMessages ==
    /\ [](/\ \A record \in Record : (TryFrom(record) # <<>>) <=> ValidShape(record)
          /\ \A m \in InFlight : WellFormed(m))
    /\ [][nread' # nread =>
            \/ pchan' = pchan /\ sent' = sent
            \/ \E record \in Record :
                /\ ValidShape(record)
                /\ TryFrom(record) # <<>>
                /\ pchan' = Append(pchan, TryFrom(record)[1])]_vars

\* every record of the file has been read, one of them was rejected, and
\* the others were applied
C21_Witness ==
    /\ parserDone
    /\ Len(sent[1]) + Len(sent[2]) = MaxRecords - 1
    /\ Len(applied[1]) + Len(applied[2]) = MaxRecords - 1

\* the router has returned while messages are queued for the running task
\* of client c
QueuedAtRelease(c) ==
    /\ rpc = "done"
    /\ actor[c] = "running"
    /\ mailbox[c] # <<>>

\* C22: while messages are queued after the router has returned, the task
\* cannot emit and can apply; and in the step in which a task emits, its
\* mailbox is empty, it is the step's only effect on the task, and the
\* messages it has consumed are those the router forwarded to it.
C22_NothingLostAtShutdown ==
    /\ [](\A c \in Clients :
            QueuedAtRelease(c) => (~ENABLED ActorEmit(c) /\ ENABLED ActorApply(c)))
    /\ [][\A c \in Clients :
            (actor[c] = "running" /\ actor'[c] = "done") =>
                /\ mailbox[c] = <<>>
                /\ mailbox'[c] = <<>>
                /\ applied'[c] = applied[c]
                /\ applied[c] = FromFirstDeposit(sent[c])
                /\ account'[c] = account[c]]_vars

\* the router has returned leaving a full mailbox of which the task has
\* consumed nothing yet
C22_Witness ==
    \E c \in Clients :
        /\ QueuedAtRelease(c)
        /\ Len(mailbox[c]) = ACCOUNT_CHAN_SIZE
        /\ applied[c] = <<>>

\* what is and will be applied for client c, in order
Stream(c) == applied[c] \o mailbox[c] \o Pending(c)

\* C23: once the task of a client is started, the first message it applies
\* or will apply is the Deposit that created it, the first Deposit of the
\* client in the file; and the written snapshot of a client whose only
\* forwarded message was one Deposit has available = total = its amount.
C23_CreatingDepositIsApplied ==
    /\ \A c \in Clients :
        actor[c] # "none" =>
            /\ Stream(c) # <<>>
            /\ is_deposit(Stream(c)[1])
            /\ Stream(c)[1] = FromFirstDeposit(sent[c])[1]
    /\ \A i \in DOMAIN out :
        LET fwd == FromFirstDeposit(sent[out[i].client]) IN
        Len(fwd) = 1 =>
            /\ out[i].available = fwd[1].amount[1]
            /\ out[i].total = fwd[1].amount[1]
            /\ out[i].held = 0

\* the snapshot of a client whose only message was a Deposit of 1 has been
\* written
C23_Witness ==
    \E i \in DOMAIN out :
        /\ Len(sent[out[i].client]) = 1
        /\ sent[out[i].client][1].kind = "Deposit"
        /\ sent[out[i].client][1].amount = <<1>>
        /\ out[i].available = 1
        /\ out[i].total = 1

\* C24: when the last two messages applied to an account are a Dispute of tx
\* that succeeded and a Resolve of tx, the account and the whole history
\* equal their values before the Dispute, and a Dispute of tx applied next
\* succeeds again.
C24_DisputeResolveRoundTrip ==
    \A c \in Clients :
        LET n == Len(applied[c]) IN
        (/\ n >= 2
         /\ applied[c][n - 1].kind = "Dispute"
         /\ applied[c][n].kind = "Resolve"
         /\ applied[c][n].tx = applied[c][n - 1].tx
         /\ LET st == Replay(c, SubSeq(applied[c], 1, n - 2))
                tx == applied[c][n].tx
            IN /\ ~st.acc.locked
               /\ HasStatus(st.hist, tx, "Deposited")
               /\ st.acc.available >= st.hist[tx].amount) =>
            LET st == Replay(c, SubSeq(applied[c], 1, n - 2))
                tx == applied[c][n].tx
                again == Apply(account[c], history[c], applied[c][n - 1])
            IN /\ account[c] = st.acc
               /\ history[c] = st.hist
               /\ again.res = "Ok"
               /\ again.hist[tx] = [status |-> "Disputed", amount |-> st.hist[tx].amount]
               /\ again.acc.held = account[c].held + st.hist[tx].amount
               /\ again.acc.available = account[c].available - st.hist[tx].amount

\* a deposit of 2 has been disputed and resolved in an account that holds
\* another deposit
C24_Witness ==
    \E c \in Clients :
        /\ Len(applied[c]) = 4
        /\ applied[c][3].kind = "Dispute"
        /\ applied[c][4].kind = "Resolve"
        /\ applied[c][4].tx = applied[c][3].tx
        /\ Before(c).acc.held = 2
        /\ HasStatus(Before(c).hist, applied[c][4].tx, "Disputed")
        /\ account[c].held = 0
        /\ account[c].available = 3

\* C25: the writer can see the result channel closed, and has finished, only
\* when the router has returned, no task is running, the channel is empty
\* and the snapshot of every started task is written; and a task that ends
\* always queues its snapshot on the result channel (the send never fails).
C25_WriterFinishesLast ==
    /\ []((writerDone \/ ENABLED WriterExit) =>
            /\ rpc = "done"
            /\ rchan = <<>>
            /\ \A c \in Clients :
                /\ actor[c] # "running"
                /\ actor[c] = "done" =>
                    \E i \in DOMAIN out : out[i] = account[c])
    /\ [][\A c \in Clients :
            (actor[c] = "running" /\ actor'[c] = "done") =>
                /\ ~writerDone
                /\ rchan' = Append(rchan, account[c])]_vars

\* the writer has finished after writing more snapshots than the result
\* channel can hold
C25_Witness ==
    /\ writerDone
    /\ Len(out) > RESULT_CHAN_SIZE
    /\ \A c \in Clients : actor[c] = "done"

\* the reader thread waits in blocking_send on the full parser channel
ParserBlocked == ~parserDone /\ nread < MaxDeepRecords /\ Len(pchan) >= PARSER_CHAN_SIZE

\* the task of client c waits in done.send on the full result channel
EmitBlocked(c) ==
    /\ actor[c] = "running"
    /\ mailbox[c] = <<>>
    /\ MailboxClosed(c)
    /\ ~writerDone
    /\ Len(rchan) >= RESULT_CHAN_SIZE

\* no input unread, no message and no snapshot undelivered
NothingOutstanding ==
    /\ parserDone
    /\ pchan = <<>>
    /\ rmsg = <<>>
    /\ rchan = <<>>
    /\ \A c \in Clients : mailbox[c] = <<>> /\ actor[c] # "running"

\* C26: a state in which no thread or task can take a step has nothing
\* outstanding; and every wait on a full channel is on a consumer that can
\* take a step: the reader on the router (or on the task the router waits
\* on), the router on the task, a task on the writer.
C26_NoDeadlock ==
    /\ ~ENABLED NextDeep => NothingOutstanding
    /\ ParserBlocked => (ENABLED RouterRecv \/ ENABLED RouterSend \/ RouterSuspended)
    /\ RouterSuspended => ENABLED ActorApply(client_id(rmsg[1]))
    /\ \A c \in Clients : EmitBlocked(c) => ENABLED WriterRecv

\* the reader waits on the full parser channel and the router on a full
\* mailbox, the result channel is empty, and only the task can take a step
C26_Witness ==
    /\ ParserBlocked
    /\ RouterSuspended
    /\ rchan = <<>>
    /\ ~writerDone
    /\ ~ENABLED RouterRecv
    /\ ~ENABLED WriterRecv
    /\ ENABLED ActorApply(client_id(rmsg[1]))

\* the sum of the amounts of the entries of h under the keys S that are
\* Disputed
RECURSIVE SumDisputed(_, _)
SumDisputed(h, S) ==
    IF S = {}
    THEN 0
    ELSE LET t == CHOOSE x \in S : TRUE IN
         (IF h[t].status = "Disputed" THEN h[t].amount ELSE 0)
            + SumDisputed(h, S \ {t})

\* C27: in every account state, held is the sum of the amounts of the
\* history entries whose status is Disputed.
C27_HeldIsSumOfDisputed ==
    \A c \in Clients : account[c].held = SumDisputed(history[c], DOMAIN history[c])

\* every Deposit and Withdraw applied for client c has an amount >= 0
NonNegativeAmounts(c) ==
    \A k \in DOMAIN applied[c] :
        applied[c][k].amount # <<>> => applied[c][k].amount[1] >= 0

\* C28: after any sequence of messages whose Deposit and Withdraw amounts
\* are all non-negative, available, held and total are non-negative.
C28_NonNegativeBalances ==
    \A c \in Clients :
        NonNegativeAmounts(c) =>
            /\ account[c].available >= 0
            /\ account[c].held >= 0
            /\ account[c].total >= 0

\* after a deposit and a withdrawal, a Dispute of the deposit was refused
\* because less than its amount is available
C28_Witness ==
    \E c \in Clients :
        /\ NonNegativeAmounts(c)
        /\ applied[c] # <<>>
        /\ Last(applied[c]).kind = "Dispute"
        /\ HasStatus(Before(c).hist, Last(applied[c]).tx, "Deposited")
        /\ Before(c).acc.available < Before(c).hist[Last(applied[c]).tx].amount
        /\ \E k \in DOMAIN applied[c] : applied[c][k].kind = "Withdraw"
        /\ account[c].held = 0

\* C29: a step that applies a Withdraw leaves available and total no greater
\* than they were.
C29_WithdrawNeverCredits ==
    [][\A c \in Clients :
        (applied'[c] # applied[c] /\ Last(applied'[c]).kind = "Withdraw") =>
            /\ account'[c].available <= account[c].available
            /\ account'[c].total <= account[c].total]_vars

\* the keys of h whose entry is Reversed
ReversedIn(h) == {t \in DOMAIN h : h[t].status = "Reversed"}

\* C30: an account is locked exactly when its history holds a Reversed
\* entry; a history holds at most one Reversed entry; and a step leaves
\* every Reversed entry as it is.
C30_LockedIffReversed ==
    /\ [](\A c \in Clients :
            /\ account[c].locked <=> ReversedIn(history[c]) # {}
            /\ Cardinality(ReversedIn(history[c])) <= 1)
    /\ [][\A c \in Clients :
            \A t \in ReversedIn(history[c]) :
                t \in DOMAIN history'[c] /\ history'[c][t] = history[c][t]]_vars

\* a Deposit that reuses the id of the Reversed entry has been rejected by
\* a locked account whose history holds another, Deposited entry
C30_Witness ==
    \E c \in Clients :
        /\ account[c].locked
        /\ lastResult[c] = <<"PE_ACCLCK">>
        /\ Last(applied[c]).kind = "Deposit"
        /\ Last(applied[c]).tx \in ReversedIn(history[c])

\* the tx ids of the messages of the given kind in q
TxOf(q, kind) == {q[k].tx : k \in {i \in DOMAIN q : q[i].kind = kind}}

\* C31: the keys of a history are tx ids of Deposits applied to the account;
\* and a step that applies a Dispute, Resolve or Chargeback whose tx id no
\* Deposit applied to the account has used changes nothing (and returns Ok
\* on an unlocked account).
C31_WithdrawalsNotDisputable ==
    /\ [](\A c \in Clients : DOMAIN history[c] \subseteq TxOf(applied[c], "Deposit"))
    /\ [][\A c \in Clients :
            (/\ applied'[c] # applied[c]
             /\ Last(applied'[c]).kind \in {"Dispute", "Resolve", "Chargeback"}
             /\ Last(applied'[c]).tx \notin TxOf(applied[c], "Deposit")) =>
                /\ NoChange(c)
                /\ ~account[c].locked => lastResult'[c] = <<"Ok">>]_vars

\* a Dispute of the tx id of a withdrawal that succeeded has left nothing
\* held, though the available funds would cover the amount withdrawn
C31_Witness ==
    \E c \in Clients :
        /\ Len(applied[c]) = 3
        /\ applied[c][2].kind = "Withdraw"
        /\ applied[c][2].amount[1] > 0
        /\ applied[c][3].kind = "Dispute"
        /\ applied[c][3].tx = applied[c][2].tx
        /\ applied[c][3].tx \notin TxOf(applied[c], "Deposit")
        /\ Before(c).acc.total = 1
        /\ account[c].available >= applied[c][2].amount[1]
        /\ account[c].held = 0
        /\ lastResult[c] = <<"Ok">>

\* C32: a step that applies a Deposit or a Withdraw leaves held; a Dispute
\* or a Resolve leaves total; a Chargeback leaves available; locked changes
\* only in a Chargeback of a Disputed entry on an unlocked account; the keys
\* of the history are never removed, and only a Deposit adds one.
C32_Frame ==
    [][\A c \in Clients :
        applied'[c] # applied[c] =>
            LET msg == Last(applied'[c]) IN
            /\ msg.kind \in {"Deposit", "Withdraw"} => account'[c].held = account[c].held
            /\ msg.kind \in {"Dispute", "Resolve"} => account'[c].total = account[c].total
            /\ msg.kind = "Chargeback" => account'[c].available = account[c].available
            /\ account'[c].locked # account[c].locked =>
                /\ msg.kind = "Chargeback"
                /\ ~account[c].locked
                /\ HasStatus(history[c], msg.tx, "Disputed")
            /\ DOMAIN history[c] \subseteq DOMAIN history'[c]
            /\ DOMAIN history'[c] # DOMAIN history[c] => msg.kind = "Deposit"
            /\ account'[c].client = account[c].client]_vars

\* after two deposits, a dispute and its chargeback, the account is locked
\* with the other deposit still available and both keys in the history
C32_Witness ==
    \E c \in Clients :
        /\ Len(applied[c]) = 4
        /\ applied[c][4].kind = "Chargeback"
        /\ account[c].locked
        /\ ~Before(c).acc.locked
        /\ account[c].available = Before(c).acc.available
        /\ account[c].available > 0
        /\ account[c].total = account[c].available
        /\ Cardinality(DOMAIN history[c]) = 2

=============================================================================
